---- MODULE Spec2Model ----
(***************************************************************************)
(* Model of eval/agreement.py: the score loader (load_scores), the aligner *)
(* and the descriptive aggregates of main.                                 *)
(*                                                                         *)
(* Spec      the row-by-row scan of one workbook by load_scores            *)
(* SpecMain  main() from two loaded AnnotatorScores onwards                *)
(* SpecAgg   the aggregate functions applied to an arbitrary scores_dict   *)
(***************************************************************************)
EXTENDS Integers, Sequences, FiniteSets

VARIABLES
    pc,          \* position of the program
    raised,      \* the exception that ended the run, "none" while there is none
    \* ---- load_scores ----
    sheets,      \* names of the sheets of wb.sheetnames visited so far
    sheetname,   \* the sheet of the current iteration of the outer loop
    nrows,       \* rows of the current sheet scanned so far
    row,         \* the row of the last iteration of the inner loop
    replaced,    \* the score the assignment of that iteration overwrote, if any
    all_scores,  \* {team: {qid: 0/1}}
    \* ---- main ----
    m1, m2,      \* the two AnnotatorScores
    common,      \* list of paired scores
    by_q,        \* {qid: [(s1, s2), ...]}
    report,      \* the sections printed so far
    \* ---- aggregates ----
    data,        \* the scores_dict the aggregate functions are applied to
    out          \* the values the aggregate sections computed

vars == <<pc, raised, sheets, sheetname, nrows, row, replaced, all_scores,
          m1, m2, common, by_q, report, data, out>>

loadVars == <<sheets, sheetname, nrows, row, replaced, all_scores>>
mainVars == <<m1, m2, common, by_q, report>>
aggVars  == <<data, out>>

----------------------------------------------------------------------------
(* Bounds *)

MaxRows   == 2      \* rows scanned per sheet
MaxCells  == 2      \* scored (team, qid) cells of an AnnotatorScores drawn for main

----------------------------------------------------------------------------
(* Cell values: what openpyxl hands over for a cell (None, a number, text) *)

None     == [tag |-> "none",  n |-> 0, s |-> <<>>]
IntCell(i)   == [tag |-> "int",   n |-> i, s |-> <<>>]
\* a float with one decimal digit, stored as its number of tenths
FloatCell(t) == [tag |-> "float", n |-> t, s |-> <<>>]
Text(chars)  == [tag |-> "text",  n |-> 0, s |-> chars]

PassMarker == <<"P", "a", "s", "s", " ", "(", "1", ")">>
FailMarker == <<"F", "a", "i", "l", " ", "(", "0", ")">>
NearPass   == <<"p", "a", "s", "s", " ", "(", "1", ")">>
NearFail   == <<"F", "a", "i", "l", "(", "0", ")">>
TeamPrefix == <<"T", "e", "a", "m">>

\* str.startswith
StartsWith(str, prefix) ==
    /\ Len(str) >= Len(prefix)
    /\ SubSeq(str, 1, Len(prefix)) = prefix

----------------------------------------------------------------------------
(* int(): the coercion of line 27 *)

Digits == <<"0", "1", "2", "3", "4", "5", "6", "7", "8", "9">>
IsDigit(c) == \E i \in 1..10 : Digits[i] = c
DigitVal(c) == (CHOOSE i \in 1..10 : Digits[i] = c) - 1

RECURSIVE LStrip(_)
LStrip(str) == IF str # <<>> /\ Head(str) = " " THEN LStrip(Tail(str)) ELSE str

RECURSIVE RStrip(_)
RStrip(str) ==
    IF str # <<>> /\ str[Len(str)] = " " THEN RStrip(SubSeq(str, 1, Len(str) - 1)) ELSE str

RECURSIVE DigitsVal(_, _)
DigitsVal(str, acc) ==
    IF str = <<>> THEN acc ELSE DigitsVal(Tail(str), acc * 10 + DigitVal(Head(str)))

Ok(v)    == [ok |-> TRUE,  v |-> v, exc |-> "none"]
Exc(exc) == [ok |-> FALSE, v |-> 0, exc |-> exc]

\* int(str): surrounding blanks are stripped, an optional sign, then digits only
ParseInt(str) ==
    LET t    == RStrip(LStrip(str))
        neg  == t # <<>> /\ Head(t) = "-"
        sgn  == t # <<>> /\ Head(t) \in {"-", "+"}
        body == IF sgn THEN Tail(t) ELSE t
    IN  IF body # <<>> /\ \A i \in 1..Len(body) : IsDigit(body[i])
        THEN Ok(IF neg THEN 0 - DigitsVal(body, 0) ELSE DigitsVal(body, 0))
        ELSE Exc("ValueError")

\* int(float) truncates towards zero
TruncTenths(t) == IF t >= 0 THEN t \div 10 ELSE 0 - ((0 - t) \div 10)

IntOf(cell) ==
    CASE cell.tag = "int"   -> Ok(cell.n)
      [] cell.tag = "float" -> Ok(TruncTenths(cell.n))
      [] cell.tag = "text"  -> ParseInt(cell.s)
      [] OTHER              -> Exc("TypeError")

----------------------------------------------------------------------------
(* Python dicts: a sequence of entries in insertion order *)

Entry(k, v) == [k |-> k, v |-> v]
EmptyDict == <<>>

DictKeys(d) == {d[i].k : i \in 1..Len(d)}
DictHas(d, k) == \E i \in 1..Len(d) : d[i].k = k
DictIndex(d, k) == CHOOSE i \in 1..Len(d) : d[i].k = k
\* d[k]
DictGet(d, k) == d[DictIndex(d, k)].v
\* d.get(k): the value, or None
Some(v) == [some |-> TRUE, v |-> v]
Nothing == [some |-> FALSE, v |-> 0]
DictGetOpt(d, k) == IF DictHas(d, k) THEN Some(DictGet(d, k)) ELSE Nothing

\* list(d.values())
DictValues(d) == [i \in 1..Len(d) |-> d[i].v]

\* d.setdefault(k, v) in place of d[k] = v: the first score of a key stays
DictSetKeepFirst(d, k, v) == IF DictHas(d, k) THEN d ELSE Append(d, Entry(k, v))

\* d[k] = v
DictSet(d, k, v) ==
    IF DictHas(d, k)
    THEN [d EXCEPT ![DictIndex(d, k)] = Entry(k, v)]
    ELSE Append(d, Entry(k, v))

\* d.setdefault(k, default), the dict afterwards
SetDefault(d, k, default) == IF DictHas(d, k) THEN d ELSE Append(d, Entry(k, default))

\* no key twice
IsDict(d) == \A i, j \in 1..Len(d) : d[i].k = d[j].k => i = j

----------------------------------------------------------------------------
(* load_scores *)

\* the indicator cells read before the numeric score cell
ResolveIndicatorsFirst(r) ==
    IF r[4] = Text(PassMarker) THEN IntCell(1)
    ELSE IF r[5] = Text(FailMarker) THEN IntCell(0)
    ELSE r[6]

\* the fail marker looked for in the pass-indicator cell
ResolveFailFromPassCell(r) ==
    LET score == r[6]
    IN  IF score = None
        THEN IF r[4] = Text(PassMarker) THEN IntCell(1)
             ELSE IF r[4] = Text(FailMarker) THEN IntCell(0)
             ELSE None
        ELSE score

\* fail as the negation of pass
ResolveDefaultFail(r) ==
    LET score == r[6]
    IN  IF score = None
        THEN IF r[4] = Text(PassMarker) THEN IntCell(1) ELSE IntCell(0)
        ELSE score

\* lines 19-24: the score of a row, None when none was determined
Resolve(r) ==
    LET score == r[6]
    IN  IF score = None
        THEN IF r[4] = Text(PassMarker) THEN IntCell(1)
             ELSE IF r[5] = Text(FailMarker) THEN IntCell(0)
             ELSE None
        ELSE score

Qids == {Text(<<"Q", "1">>), Text(<<"Q", "2">>)}

TeamA == <<"T", "e", "a", "m", "A">>
TeamB == <<"T", "e", "a", "m", "B">>
\* wb.sheetnames: two team sheets, and a sheet that is no team sheet
SheetNames == {TeamA, TeamB, <<"T", "e", "a">>}

PassCells  == {None, Text(PassMarker), Text(NearPass)}
FailCells  == {None, Text(FailMarker), Text(NearFail)}
\* the numeric score cell: empty, 2.7, " 1", "x"
ScoreCells == {None, FloatCell(27), Text(<<" ", "1">>), Text(<<"x">>)}

\* the rows iter_rows(values_only=True) yields for a sheet of the six-column layout:
\* qid, two columns that are not read, pass indicator, fail indicator, numeric score
Rows ==
    {<<q, None, None, p, f, s>> : q \in Qids, p \in PassCells,
                                   f \in FailCells, s \in ScoreCells}
    \cup {<<None, None, None, p, None, s>> : p \in {None, Text(PassMarker)},
                                             s \in {None, FloatCell(27)}}

NoRow == <<>>

Init ==
    /\ pc = "sheets"
    /\ raised = "none"
    /\ sheets = {}
    /\ sheetname = <<>>
    /\ nrows = 0
    /\ row = NoRow
    /\ replaced = Nothing
    /\ all_scores = EmptyDict
    /\ m1 = EmptyDict /\ m2 = EmptyDict
    /\ common = <<>> /\ by_q = EmptyDict /\ report = <<>>
    /\ data = EmptyDict /\ out = <<>>

\* lines 10-13: the next sheet of the workbook; it is scanned when its name starts with "Team"
NextSheet ==
    /\ pc \in {"sheets", "rows"}
    /\ \E name \in SheetNames \ sheets :
        /\ sheets' = sheets \cup {name}
        /\ sheetname' = name
        /\ pc' = IF StartsWith(name, TeamPrefix) THEN "rows" ELSE "sheets"
    /\ nrows' = 0
    /\ row' = NoRow
    /\ replaced' = Nothing
    /\ UNCHANGED <<raised, all_scores>>
    /\ UNCHANGED <<mainVars, aggVars>>

\* lines 14-27: one iteration of the loop over the rows of the current sheet
ScanRow ==
    /\ pc = "rows"
    /\ nrows < MaxRows
    /\ \E r \in Rows :
        /\ row' = r
        /\ nrows' = nrows + 1
        /\ LET qid   == r[1]
               score == Resolve(r)
               i     == IntOf(score)
           IN
           IF qid = None \/ score = None
           THEN /\ replaced' = Nothing
                /\ UNCHANGED <<pc, raised, all_scores>>
           ELSE IF ~i.ok
           THEN /\ pc' = "raised"
                /\ raised' = i.exc
                /\ replaced' = Nothing
                /\ UNCHANGED all_scores
           ELSE LET d  == SetDefault(all_scores, sheetname, EmptyDict)
                    ts == DictGet(d, sheetname)
                IN  /\ all_scores' = DictSet(d, sheetname, DictSet(ts, qid, i.v))
                    /\ replaced' = DictGetOpt(ts, qid)
                    /\ UNCHANGED <<pc, raised>>
    /\ UNCHANGED <<sheets, sheetname>>
    /\ UNCHANGED <<mainVars, aggVars>>

\* line 28: return all_scores
Return ==
    /\ pc \in {"sheets", "rows"}
    /\ pc' = "returned"
    /\ sheets' = {} /\ sheetname' = <<>> /\ nrows' = 0 /\ row' = NoRow /\ replaced' = Nothing
    /\ UNCHANGED <<raised, all_scores, mainVars, aggVars>>

Next == NextSheet \/ ScanRow \/ Return

Spec == Init /\ [][Next]_vars

----------------------------------------------------------------------------
(* main: the aligner *)

\* "if s2:" in place of "if s2 is not None:"
RECURSIVE CommonOfTeamTruthy(_, _)
CommonOfTeamTruthy(scores, other) ==
    IF scores = <<>> THEN <<>>
    ELSE LET s2 == DictGetOpt(other, Head(scores).k)
         IN  (IF s2.some /\ s2.v # 0 THEN <<(<<Head(scores).v, s2.v>>)>> ELSE <<>>)
                 \o CommonOfTeamTruthy(Tail(scores), other)

\* lines 61-64: the pairs of one team, scores = m1[team], other = m2[team]
RECURSIVE CommonOfTeam(_, _)
CommonOfTeam(scores, other) ==
    IF scores = <<>> THEN <<>>
    ELSE LET qid == Head(scores).k
             s1  == Head(scores).v
             s2  == DictGetOpt(other, qid)
         IN  (IF s2.some THEN <<(<<s1, s2.v>>)>> ELSE <<>>)
                 \o CommonOfTeam(Tail(scores), other)

\* lines 58-64: the list of paired scores
RECURSIVE Common(_, _)
Common(a, b) ==
    IF a = <<>> THEN <<>>
    ELSE LET team   == Head(a).k
             scores == Head(a).v
         IN  (IF DictHas(b, team) THEN CommonOfTeam(scores, DictGet(b, team)) ELSE <<>>)
                 \o Common(Tail(a), b)

\* "if m2[team].get(qid):" in place of "if qid in m2[team]:"
RECURSIVE ByQOfTeamTruthy(_, _, _)
ByQOfTeamTruthy(acc, scores, other) ==
    IF scores = <<>> THEN acc
    ELSE LET qid == Head(scores).k
             s2  == DictGetOpt(other, qid)
         IN  IF s2.some /\ s2.v # 0
             THEN LET d == SetDefault(acc, qid, <<>>)
                  IN  ByQOfTeamTruthy(DictSet(d, qid, Append(DictGet(d, qid), <<Head(scores).v, s2.v>>)),
                                      Tail(scores), other)
             ELSE ByQOfTeamTruthy(acc, Tail(scores), other)

\* lines 78-80: the pairs of one team added to by_q
RECURSIVE ByQOfTeam(_, _, _)
ByQOfTeam(acc, scores, other) ==
    IF scores = <<>> THEN acc
    ELSE LET qid == Head(scores).k
             s1  == Head(scores).v
         IN  IF DictHas(other, qid)
             THEN LET d == SetDefault(acc, qid, <<>>)
                  IN  ByQOfTeam(DictSet(d, qid, Append(DictGet(d, qid), <<s1, DictGet(other, qid)>>)),
                                Tail(scores), other)
             ELSE ByQOfTeam(acc, Tail(scores), other)

\* lines 75-80: the paired scores per qid
RECURSIVE ByQ(_, _, _)
ByQ(acc, a, b) ==
    IF a = <<>> THEN acc
    ELSE LET team   == Head(a).k
             scores == Head(a).v
         IN  IF DictHas(b, team)
             THEN ByQ(ByQOfTeam(acc, scores, DictGet(b, team)), Tail(a), b)
             ELSE ByQ(acc, Tail(a), b)

----------------------------------------------------------------------------
(* The aggregates.  A quotient is kept as a fraction; a division by zero     *)
(* gives ZeroDivisionError.                                                 *)

Rat(n, d) == [num |-> n, den |-> d, err |-> FALSE]
ZeroDivisionError == [num |-> 0, den |-> 0, err |-> TRUE]
\* a / b
Div(a, b) == IF b = 0 THEN ZeroDivisionError ELSE Rat(a, b)
RatAdd(x, y) ==
    IF x.err \/ y.err THEN ZeroDivisionError
    ELSE Rat(x.num * y.den + y.num * x.den, x.den * y.den)
\* x / n for a quotient x
RatDiv(x, n) == IF x.err \/ n = 0 THEN ZeroDivisionError ELSE Rat(x.num, x.den * n)

\* sum(vals)
RECURSIVE Sum(_)
Sum(vals) == IF vals = <<>> THEN 0 ELSE Head(vals) + Sum(Tail(vals))

\* sum(s for s in vals if s == 1)
RECURSIVE SumOnes(_)
SumOnes(vals) ==
    IF vals = <<>> THEN 0
    ELSE (IF Head(vals) = 1 THEN Head(vals) ELSE 0) + SumOnes(Tail(vals))

RECURSIVE RatSum(_)
RatSum(rats) == IF rats = <<>> THEN Rat(0, 1) ELSE RatAdd(Head(rats), RatSum(Tail(rats)))

\* the order sorted() gives the names of the sheets and the qids of the model
SortOrder == <<TeamA, TeamB, Text(<<"Q", "1">>), Text(<<"Q", "2">>)>>
Rank(k) == CHOOSE i \in 1..Len(SortOrder) : SortOrder[i] = k

\* sorted(d.items())
RECURSIVE SortedItems(_)
SortedItems(d) ==
    IF d = <<>> THEN <<>>
    ELSE LET i == CHOOSE i \in 1..Len(d) : \A j \in 1..Len(d) : Rank(d[i].k) <= Rank(d[j].k)
         IN  <<d[i]>> \o SortedItems(SubSeq(d, 1, i - 1) \o SubSeq(d, i + 1, Len(d)))

\* the mean without the guard against an empty list
MeanOfUnguarded(vals) == Div(Sum(vals), Len(vals))

\* line 36
MeanOf(vals) == IF vals # <<>> THEN Div(Sum(vals), Len(vals)) ELSE Rat(0, 1)

\* lines 31-38: scores_per_project
ScoresPerProject(scores_dict) ==
    LET items == SortedItems(scores_dict)
    IN  [i \in 1..Len(items) |->
            LET vals == DictValues(items[i].v)
            IN  [team |-> items[i].k, mean |-> MeanOf(vals), n |-> Len(vals)]]

\* lines 44-46: by_qid, the scores of one team added
RECURSIVE ByQidOfTeam(_, _)
ByQidOfTeam(acc, q_scores) ==
    IF q_scores = <<>> THEN acc
    ELSE LET qid == Head(q_scores).k
             d   == SetDefault(acc, qid, <<>>)
         IN  ByQidOfTeam(DictSet(d, qid, Append(DictGet(d, qid), Head(q_scores).v)),
                         Tail(q_scores))

RECURSIVE ByQid(_, _)
ByQid(acc, scores_dict) ==
    IF scores_dict = <<>> THEN acc
    ELSE ByQid(ByQidOfTeam(acc, Head(scores_dict).v), Tail(scores_dict))

\* line 48: the percentage of a category, times 100.0
PctOf(vals) == IF vals # <<>> THEN Div(SumOnes(vals) * 100, Len(vals)) ELSE Rat(0, 1)

\* lines 41-50: pct_score_one_per_category
PctScoreOnePerCategory(scores_dict) ==
    LET by_qid == ByQid(EmptyDict, scores_dict)
    IN  [i \in 1..Len(by_qid) |->
            Entry(by_qid[i].k, [p |-> PctOf(by_qid[i].v), n |-> Len(by_qid[i].v)])]

\* a value that is not computed (nothing is printed)
Blank == [num |-> 0, den |-> 1, err |-> FALSE, blank |-> TRUE]
Val(x) == [num |-> x.num, den |-> x.den, err |-> x.err, blank |-> FALSE]

\* lines 92-97: the per-project rows of one annotator and the mean between projects
ProjectSection(d) ==
    LET rows == ScoresPerProject(d)
    IN  [rows |-> rows,
         tot_mean |-> IF rows # <<>>
                      THEN Val(RatDiv(RatSum([i \in 1..Len(rows) |-> rows[i].mean]), Len(rows)))
                      ELSE Blank]

\* [s for team_scores in data.values() for s in team_scores.values()]
RECURSIVE AllVals(_)
AllVals(d) == IF d = <<>> THEN <<>> ELSE DictValues(Head(d).v) \o AllVals(Tail(d))

\* lines 104-107: the mean over all the cells of one annotator
FlatSection(d) ==
    LET all_vals == AllVals(d)
    IN  IF all_vals # <<>> THEN Val(Div(Sum(all_vals), Len(all_vals))) ELSE Blank

\* lines 109-113: the mean of one side of the paired scores
CommonMean(r_flat) ==
    IF r_flat # <<>> THEN Val(Div(Sum(r_flat), Len(r_flat))) ELSE Blank

\* sum(len(v) for v in data.values())
RECURSIVE TotalN(_)
TotalN(d) == IF d = <<>> THEN 0 ELSE Len(Head(d).v) + TotalN(Tail(d))

\* lines 120-128: the percentages per category of one annotator and the total
PctSection(d) ==
    LET pct == PctScoreOnePerCategory(d)
    IN  [pct |-> SortedItems(pct),
         total |-> IF pct # <<>>
                   THEN LET count_ones == SumOnes(AllVals(d))
                            total_n    == TotalN(d)
                        IN  IF total_n # 0 THEN Val(Div(count_ones * 100, total_n)) ELSE Blank
                   ELSE Blank]

ProjectRaises(sec) == sec.tot_mean.err \/ \E i \in 1..Len(sec.rows) : sec.rows[i].mean.err
PctRaises(sec) == sec.total.err \/ \E i \in 1..Len(sec.pct) : sec.pct[i].v.p.err

----------------------------------------------------------------------------
(* main from the two loaded AnnotatorScores *)

Scores == {0, 1}
Teams == {TeamA, TeamB}

\* the dicts of 1..n entries with keys in K and values in V, in every insertion order
DictsOver(K, V, lo) ==
    {d \in UNION {[1..n -> {Entry(k, v) : k \in K, v \in V}] : n \in lo..Cardinality(K)} : IsDict(d)}

\* what load_scores returns: a team is present only with a score
AnnotatorScores ==
    {d \in DictsOver(Teams, DictsOver(Qids, Scores, 1), 0) : TotalN(d) <= MaxCells}

InitMain ==
    /\ pc = "loaded"
    /\ raised = "none"
    /\ sheets = {} /\ sheetname = <<>> /\ nrows = 0 /\ row = NoRow /\ replaced = Nothing
    /\ all_scores = EmptyDict
    /\ m1 \in AnnotatorScores
    /\ m2 \in AnnotatorScores
    /\ common = <<>> /\ by_q = EmptyDict /\ report = <<>>
    /\ data = EmptyDict /\ out = <<>>

\* lines 57-64
Align ==
    /\ pc = "loaded"
    /\ common' = Common(m1, m2)
    /\ pc' = "aligned"
    /\ UNCHANGED <<raised, loadVars, m1, m2, by_q, report, aggVars>>

\* lines 66-68
NoOverlap ==
    /\ pc = "aligned"
    /\ common = <<>>
    /\ report' = Append(report, "no_overlap")
    /\ pc' = "done"
    /\ UNCHANGED <<raised, loadVars, m1, m2, common, by_q, aggVars>>

\* lines 70-72
KappaAll ==
    /\ pc = "aligned"
    /\ common # <<>>
    /\ report' = Append(report, "kappa_all")
    /\ pc' = "kappa"
    /\ UNCHANGED <<raised, loadVars, m1, m2, common, by_q, aggVars>>

\* lines 74-84
KappaPerQ ==
    /\ pc = "kappa"
    /\ by_q' = ByQ(EmptyDict, m1, m2)
    /\ report' = Append(report, "kappa_per_q")
    /\ pc' = "by_q"
    /\ UNCHANGED <<raised, loadVars, m1, m2, common, aggVars>>

\* lines 86-97
PerProject ==
    /\ pc = "by_q"
    /\ LET secs == <<ProjectSection(m1), ProjectSection(m2)>> IN
        /\ out' = Append(out, secs)
        /\ IF ProjectRaises(secs[1]) \/ ProjectRaises(secs[2])
           THEN pc' = "raised" /\ raised' = "ZeroDivisionError" /\ UNCHANGED report
           ELSE pc' = "per_project" /\ report' = Append(report, "per_project")
                /\ UNCHANGED raised
    /\ UNCHANGED <<loadVars, m1, m2, common, by_q, data>>

\* lines 99-113
TotalMean ==
    /\ pc = "per_project"
    /\ LET r1   == [i \in 1..Len(common) |-> common[i][1]]
           r2   == [i \in 1..Len(common) |-> common[i][2]]
           secs == <<FlatSection(m1), FlatSection(m2), CommonMean(r1), CommonMean(r2)>>
       IN
        /\ out' = Append(out, secs)
        /\ IF \E i \in 1..4 : secs[i].err
           THEN pc' = "raised" /\ raised' = "ZeroDivisionError" /\ UNCHANGED report
           ELSE pc' = "total_mean" /\ report' = Append(report, "total_mean")
                /\ UNCHANGED raised
    /\ UNCHANGED <<loadVars, m1, m2, common, by_q, data>>

\* lines 115-128
PerCategory ==
    /\ pc = "total_mean"
    /\ LET secs == <<PctSection(m1), PctSection(m2)>> IN
        /\ out' = Append(out, secs)
        /\ IF PctRaises(secs[1]) \/ PctRaises(secs[2])
           THEN pc' = "raised" /\ raised' = "ZeroDivisionError" /\ UNCHANGED report
           ELSE pc' = "done" /\ report' = Append(report, "per_category")
                /\ UNCHANGED raised
    /\ UNCHANGED <<loadVars, m1, m2, common, by_q, data>>

NextMain == Align \/ NoOverlap \/ KappaAll \/ KappaPerQ \/ PerProject \/ TotalMean \/ PerCategory

SpecMain == InitMain /\ [][NextMain]_vars

----------------------------------------------------------------------------
(* The aggregate functions applied to any scores_dict *)

\* any {team: {qid: 0/1}}, a team without scores and no team at all included
ScoresDicts ==
    {d \in DictsOver(Teams, DictsOver(Qids, Scores, 0), 0) : TotalN(d) <= MaxCells}

InitAgg ==
    /\ pc = "agg"
    /\ raised = "none"
    /\ sheets = {} /\ sheetname = <<>> /\ nrows = 0 /\ row = NoRow /\ replaced = Nothing
    /\ all_scores = EmptyDict
    /\ m1 = EmptyDict /\ m2 = EmptyDict
    /\ common = <<>> /\ by_q = EmptyDict /\ report = <<>>
    /\ data \in ScoresDicts
    /\ out = <<>>

AggStep(from, to, sec, fails) ==
    /\ pc = from
    /\ out' = Append(out, sec)
    /\ IF fails
       THEN pc' = "raised" /\ raised' = "ZeroDivisionError"
       ELSE pc' = to /\ UNCHANGED raised
    /\ UNCHANGED <<loadVars, mainVars, data>>

\* lines 92-97 for one annotator
AggProject ==
    LET sec == ProjectSection(data) IN AggStep("agg", "agg_project", sec, ProjectRaises(sec))

\* lines 104-107 for one annotator
AggTotal ==
    LET sec == FlatSection(data) IN AggStep("agg_project", "agg_total", sec, sec.err)

\* lines 120-128 for one annotator
AggCategory ==
    LET sec == PctSection(data) IN AggStep("agg_total", "agg_done", sec, PctRaises(sec))

NextAgg == AggProject \/ AggTotal \/ AggCategory

SpecAgg == InitAgg /\ [][NextAgg]_vars
----------------------------------------------------------------------------
(* Properties of load_scores (checked under Spec) *)

\* the TeamScores of a team, empty while the team has no entry
TeamScoresOf(scores, team) == IF DictHas(scores, team) THEN DictGet(scores, team) ELSE EmptyDict
\* the score recorded for the qid of the current sheet, if any
Recorded(qid) == DictGetOpt(TeamScoresOf(all_scores, sheetname), qid)
RecordedIn(scores, team, qid) == DictGetOpt(TeamScoresOf(scores, team), qid)

\* the last iteration of the row loop read a row with a qid
RowWithQid == row # NoRow /\ row[1] # None
\* a step of the row loop
IsScanStep == nrows' = nrows + 1

\* every team has a score: an entry is made only when a row is scored
LoadedShape == \A i \in 1..Len(all_scores) : all_scores[i].v # EmptyDict

\* C2: every value stored in TeamScores by load_scores is 0 or 1.
C2_ScoresBinary ==
    \A i \in 1..Len(all_scores) :
        \A j \in 1..Len(all_scores[i].v) : all_scores[i].v[j].v \in {0, 1}

\* C3: load_scores raises no error, whatever the cells of a row hold: a row is
\* scored or skipped, and the scan goes on.
C3_NoErrorForAnyRow == pc # "raised" /\ raised = "none"

\* C4: a row with a qid and a non-empty numeric score cell records that cell's
\* value coerced to integer, whatever the two indicator cells hold (where the
\* coercion is undefined, int() raises and nothing is recorded).
C4_NumericTakesPrecedence ==
    (RowWithQid /\ row[6] # None) =>
        LET i == IntOf(row[6])
        IN  IF i.ok
            THEN pc = "rows" /\ Recorded(row[1]) = Some(i.v)
            ELSE pc = "raised" /\ raised = i.exc

C4_Witness ==
    /\ RowWithQid
    /\ row[6] = Text(<<" ", "1">>)
    /\ row[4] = None
    /\ row[5] = Text(FailMarker)
    /\ Recorded(row[1]) = Some(1)

\* C5: for a row with a qid and an empty numeric score cell, the score is 1 when
\* the pass indicator equals "Pass (1)" (whatever the fail indicator holds), 0 when
\* the pass indicator differs from it and the fail indicator equals "Fail (0)";
\* a text that only resembles a marker matches nothing.
C5_IndicatorFallback ==
    [][(IsScanStep /\ row'[1] # None /\ row'[6] = None) =>
        /\ pc' = "rows"
        /\ row'[4] = Text(PassMarker) => RecordedIn(all_scores', sheetname', row'[1]) = Some(1)
        /\ (row'[4] # Text(PassMarker) /\ row'[5] = Text(FailMarker))
               => RecordedIn(all_scores', sheetname', row'[1]) = Some(0)
        /\ (row'[4] \in {None, Text(NearPass)} /\ row'[5] \in {None, Text(NearFail)})
               => all_scores' = all_scores]_vars

C5_Witness ==
    /\ RowWithQid
    /\ row[6] = None
    /\ row[4] = Text(NearPass)
    /\ row[5] = Text(FailMarker)
    /\ replaced = Some(1)
    /\ Recorded(row[1]) = Some(0)

\* C6: a row with an empty numeric score cell, whose pass indicator is not the
\* pass marker and whose fail indicator is not the fail marker, yields no entry:
\* the scan of that row leaves all_scores as it was, and goes on.
C6_UnscoredRowChangesNothing ==
    [][(IsScanStep /\ row'[6] = None /\ row'[4] # Text(PassMarker)
            /\ row'[5] # Text(FailMarker))
        => (all_scores' = all_scores /\ pc' = pc /\ raised' = raised)]_vars

C6_Witness ==
    /\ RowWithQid
    /\ row[6] = None
    /\ row[4] = Text(NearPass)
    /\ row[5] = Text(NearFail)
    /\ nrows = 2
    /\ Recorded(row[1]) = Some(1)

\* C9: a qid has at most one entry in a team's TeamScores, and a scored row
\* overwrites the score an earlier row recorded for its qid: after it the qid
\* holds the score of this row, and the other qids hold what they held.
C9_LastRowWins ==
    /\ [](IsDict(all_scores) /\ \A i \in 1..Len(all_scores) : IsDict(all_scores[i].v))
    /\ [][(IsScanStep /\ pc' = "rows" /\ row'[1] # None /\ Resolve(row') # None) =>
            LET old == TeamScoresOf(all_scores, sheetname)
                new == TeamScoresOf(all_scores', sheetname')
            IN  /\ DictGetOpt(new, row'[1]) = Some(IntOf(Resolve(row')).v)
                /\ DictKeys(new) = DictKeys(old) \cup {row'[1]}
                /\ Len(new) = Cardinality(DictKeys(new))
                /\ \A q \in DictKeys(old) \ {row'[1]} : DictGet(new, q) = DictGet(old, q)]_vars

C9_Witness ==
    /\ RowWithQid
    /\ nrows = 2
    /\ replaced = Some(2)
    /\ Recorded(row[1]) = Some(0)
    /\ Len(TeamScoresOf(all_scores, sheetname)) = 1

----------------------------------------------------------------------------
(* Properties of main (checked under SpecMain) *)

HasSection(name) == \E i \in 1..Len(report) : report[i] = name

\* the (team, qid) cells both annotators scored
SharedCells ==
    {c \in Teams \X Qids :
        /\ DictHas(m1, c[1]) /\ DictHas(m2, c[1])
        /\ DictHas(DictGet(m1, c[1]), c[2]) /\ DictHas(DictGet(m2, c[1]), c[2])}
PairOf(c) == <<DictGet(DictGet(m1, c[1]), c[2]), DictGet(DictGet(m2, c[1]), c[2])>>
Count(seq, x) == Cardinality({i \in 1..Len(seq) : seq[i] = x})
Aligned == pc \notin {"loaded"}

\* C1: when no (team, qid) cell is scored by both annotators, the run reports the
\* no-overlap message and still reports the per-project and per-category aggregates.
C1_AggregatesAfterNoOverlap ==
    (pc = "done" /\ common = <<>>) =>
        /\ HasSection("no_overlap")
        /\ HasSection("per_project")
        /\ HasSection("per_category")

\* C7: common holds exactly one pair (m1[team][qid], m2[team][qid]) per cell scored
\* by both annotators and nothing else; without a shared team it is empty and the
\* run ends on the no-overlap message without an exception.
C7_CommonIsSharedCells ==
    Aligned =>
        /\ Len(common) = Cardinality(SharedCells)
        /\ \A p \in Scores \X Scores :
              Count(common, p) = Cardinality({c \in SharedCells : PairOf(c) = p})
        /\ (DictKeys(m1) \cap DictKeys(m2) = {}) => common = <<>>
        /\ (pc = "done" /\ common = <<>>) => (report = <<"no_overlap">> /\ raised = "none")

C7_Witness ==
    /\ pc = "aligned"
    /\ TotalN(m1) = 2
    /\ TotalN(m2) = 2
    /\ common = <<(<<1, 0>>)>>

\* C8: the length of common is the sum of the lengths of the groups of by_q, and
\* each shared cell contributes its pair to the group of its own qid and to no other.
RECURSIVE GroupLengths(_)
GroupLengths(d) == IF d = <<>> THEN 0 ELSE Len(Head(d).v) + GroupLengths(Tail(d))

C8_ByQPartitionsCommon ==
    pc \in {"by_q", "per_project", "total_mean"} =>
        /\ Len(common) = GroupLengths(by_q)
        /\ IsDict(by_q)
        /\ DictKeys(by_q) = {c[2] : c \in SharedCells}
        /\ \A q \in DictKeys(by_q) : \A p \in Scores \X Scores :
              Count(DictGet(by_q, q), p)
                  = Cardinality({c \in SharedCells : c[2] = q /\ PairOf(c) = p})

C8_Witness ==
    /\ pc = "by_q"
    /\ Len(by_q) = 2
    /\ Len(common) = 2
    /\ \E i \in 1..2 : common[i][2] = 0

----------------------------------------------------------------------------
(* Properties of the aggregates (checked under SpecAgg) *)

Ones(ts) == Cardinality({j \in 1..Len(ts) : ts[j].v = 1})

\* C10: the per-project rows give each team the mean and the count of its scores,
\* 0.0 and 0 for a team without scores, and no aggregate divides by zero, for any
\* scores_dict, the empty one included.
C10_AggregatesNeverDivideByZero ==
    /\ pc # "raised" /\ raised = "none"
    /\ \A s \in 1..Len(out) : s = 1 =>
          /\ ~out[s].tot_mean.err
          /\ Len(out[s].rows) = Len(data)
          /\ \A t \in 1..Len(data) :
                \E i \in 1..Len(out[s].rows) :
                    LET r == out[s].rows[i] IN
                    /\ r.team = data[t].k
                    /\ r.n = Len(data[t].v)
                    /\ ~r.mean.err
                    /\ r.mean.num * Len(data[t].v) = Ones(data[t].v) * r.mean.den
                    /\ Len(data[t].v) = 0 => r.mean = Rat(0, 1)
    /\ \A s \in 1..Len(out) : s = 2 => ~out[s].err
    /\ \A s \in 1..Len(out) : s = 3 =>
          /\ ~out[s].total.err
          /\ \A i \in 1..Len(out[s].pct) : ~out[s].pct[i].v.p.err

C10_Witness ==
    /\ pc = "agg_done"
    /\ \E t \in 1..Len(data) : data[t].v = EmptyDict
    /\ \E t \in 1..Len(data) : Len(data[t].v) = 2 /\ Ones(data[t].v) = 1

====
